---------------------------- MODULE Spec2Model ----------------------------
(***************************************************************************)
(* A model of gui/cbirGUI.py (class CBIRGui): the Tk front-end that spawns *)
(* buildFeatureDB.exe and queryImage.exe, parses the query tool's printed  *)
(* table and renders the matches in a three-column grid.                   *)
(*                                                                         *)
(* Text is modelled as TLA+ strings and the Python string operations the   *)
(* parser uses (split, strip, startswith, in, int, float) are computed on  *)
(* the characters.                                                         *)
(***************************************************************************)
EXTENDS Integers, Sequences, FiniteSets, TLC

(***************************************************************************)
(* Bounds of the model.                                                    *)
(***************************************************************************)
\* the longest free-form tool output explored, in lines
MaxLines == 3
\* the longest well-formed result table explored, in rows
MaxRows == 4
\* the most build_database calls that fail in one build-all batch of a
\* session that also queries (BuildSpec explores every pattern)
MaxFailed == 1

(***************************************************************************)
(* Python string operations.                                               *)
(***************************************************************************)
Char(s, i) == SubSeq(s, i, i)

\* the characters str.split() and str.strip() treat as whitespace
IsSpace(c) == c \in {" ", "\t", "\r", "\n", "\f"}

DigitChars == "0123456789"

IsDigit(c) == \E i \in 1..Len(DigitChars) : Char(DigitChars, i) = c

DigitVal(c) == (CHOOSE i \in 1..Len(DigitChars) : Char(DigitChars, i) = c) - 1

\* w in s
Contains(s, w) ==
    \E i \in 1..(Len(s) - Len(w) + 1) : SubSeq(s, i, i + Len(w) - 1) = w

\* s.startswith(p)
StartsWith(s, p) == Len(s) >= Len(p) /\ SubSeq(s, 1, Len(p)) = p

\* bool(s.strip())
NonBlank(s) == \E i \in 1..Len(s) : ~IsSpace(Char(s, i))

RECURSIVE SplitAt(_, _, _, _)
\* the pieces of s from position i on, cut at every occurrence of the
\* one-character separator sep; start is where the current piece began
SplitAt(s, sep, i, start) ==
    IF i > Len(s) THEN <<SubSeq(s, start, Len(s))>>
    ELSE IF Char(s, i) = sep
         THEN <<SubSeq(s, start, i - 1)>> \o SplitAt(s, sep, i + 1, i + 1)
         ELSE SplitAt(s, sep, i + 1, start)

\* s.split('\n')
SplitLines(s) == SplitAt(s, "\n", 1, 1)

RECURSIVE SplitWS(_, _, _)
\* s.split(): the maximal runs of non-whitespace characters, in order;
\* start is 0 outside a run and the run's first position inside one
SplitWS(s, i, start) ==
    IF i > Len(s)
    THEN IF start = 0 THEN <<>> ELSE <<SubSeq(s, start, Len(s))>>
    ELSE IF IsSpace(Char(s, i))
         THEN (IF start = 0 THEN <<>> ELSE <<SubSeq(s, start, i - 1)>>)
              \o SplitWS(s, i + 1, 0)
         ELSE SplitWS(s, i + 1, IF start = 0 THEN i ELSE start)

Split(s) == SplitWS(s, 1, 0)

IsSign(c) == c \in {"+", "-"}

\* the text after an optional sign
Unsigned(t) == IF Len(t) >= 1 /\ IsSign(Char(t, 1)) THEN SubSeq(t, 2, Len(t)) ELSE t

IsNegative(t) == Len(t) >= 1 /\ Char(t, 1) = "-"

AllDigits(t) == \A i \in 1..Len(t) : IsDigit(Char(t, i))

RECURSIVE DigitsValue(_, _)
\* the number written by the first n characters of the digit string t
DigitsValue(t, n) ==
    IF n = 0 THEN 0 ELSE 10 * DigitsValue(t, n - 1) + DigitVal(Char(t, n))

\* int(t) does not raise ValueError: an optional sign and one or more
\* decimal digits (the texts of the model hold no underscores and no
\* surrounding whitespace, which int() would also accept)
IsPyInt(t) == Len(Unsigned(t)) >= 1 /\ AllDigits(Unsigned(t))

\* int(t)
PyInt(t) ==
    LET u == Unsigned(t)
        v == DigitsValue(u, Len(u))
    IN IF IsNegative(t) THEN 0 - v ELSE v

\* the positions of "." in t
DotPositions(t) == {i \in 1..Len(t) : Char(t, i) = "."}

\* t without its characters at the positions in P (P holds at most one)
Without(t, P) ==
    IF P = {} THEN t
    ELSE LET p == CHOOSE i \in P : TRUE
         IN SubSeq(t, 1, p - 1) \o SubSeq(t, p + 1, Len(t))

\* float(t) does not raise ValueError: an optional sign, then digits with
\* at most one decimal point and at least one digit (the texts of the model
\* hold no exponents and none of inf, nan, which float() would also accept)
IsPyFloat(t) ==
    LET u == Unsigned(t)
        P == DotPositions(u)
        d == Without(u, P)
    IN Cardinality(P) <= 1 /\ Len(d) >= 1 /\ AllDigits(d)

RECURSIVE Normalize(_, _)
\* mant / 10^decs with a mantissa that has no trailing decimal zero
Normalize(mant, decs) ==
    IF decs > 0 /\ mant % 10 = 0
    THEN Normalize(mant \div 10, decs - 1)
    ELSE [mant |-> mant, decs |-> decs]

\* float(t), as the decimal fraction mant / 10^decs it denotes
PyFloat(t) ==
    LET u == Unsigned(t)
        P == DotPositions(u)
        d == Without(u, P)
        decs == IF P = {} THEN 0 ELSE Len(u) - (CHOOSE i \in P : TRUE)
        v == DigitsValue(d, Len(d))
    IN Normalize(IF IsNegative(t) THEN 0 - v ELSE v, decs)

(***************************************************************************)
(* parse_and_display_results, lines 522-549: the table parser.             *)
(***************************************************************************)
\* a variant of the header test that takes any one of the words for a header
IsHeaderLineAny(line) ==
    Contains(line, "Rank") \/ Contains(line, "Filename") \/ Contains(line, "Distance")

\* line 529
IsHeaderLine(line) ==
    Contains(line, "Rank") /\ Contains(line, "Filename") /\ Contains(line, "Distance")

\* line 534
IsBannerLine(line) == StartsWith(line, "=")

\* lines 537-549: the records one candidate row adds to the results
ParseRow(line) ==
    LET parts == Split(line)
    IN IF Len(parts) >= 3 /\ IsPyInt(parts[1]) /\ IsPyFloat(parts[3])
       THEN <<[rank |-> PyInt(parts[1]),
               filename |-> parts[2],
               distance |-> PyFloat(parts[3])]>>
       ELSE <<>>

RECURSIVE ParseLoopStops(_, _, _, _)
\* a variant of the loop without the try/except around the conversions: the
\* first row that cannot be read ends the parse
ParseLoopStops(lines, i, in_results, acc) ==
    IF i > Len(lines) THEN acc
    ELSE IF IsHeaderLine(lines[i]) THEN ParseLoopStops(lines, i + 1, TRUE, acc)
    ELSE IF in_results /\ NonBlank(lines[i])
         THEN IF IsBannerLine(lines[i]) \/ ParseRow(lines[i]) = <<>> THEN acc
              ELSE ParseLoopStops(lines, i + 1, in_results, acc \o ParseRow(lines[i]))
         ELSE ParseLoopStops(lines, i + 1, in_results, acc)

RECURSIVE ParseLoop(_, _, _, _)
\* lines 528-549: the loop from line i on
ParseLoop(lines, i, in_results, acc) ==
    IF i > Len(lines) THEN acc
    ELSE IF IsHeaderLine(lines[i]) THEN ParseLoop(lines, i + 1, TRUE, acc)
    ELSE IF in_results /\ NonBlank(lines[i])
         THEN IF IsBannerLine(lines[i]) THEN acc
              ELSE ParseLoop(lines, i + 1, in_results, acc \o ParseRow(lines[i]))
         ELSE ParseLoop(lines, i + 1, in_results, acc)

\* lines 522-549
ParseResults(output) == ParseLoop(SplitLines(output), 1, FALSE, <<>>)

(***************************************************************************)
(* __init__, lines 49-103: the configuration.                              *)
(***************************************************************************)
\* the keys of features_config in insertion order, the order build-all
\* iterates in
FeatureOrder ==
    <<"baseline", "histogram", "chromaticity", "multihistogram", "texturecolor",
      "gabor", "dnn", "productmatcher", "faceaware">>

FeatureNames == {FeatureOrder[i] : i \in 1..Len(FeatureOrder)}

FeatureEntry(csv, metric, description) ==
    [csv |-> csv, metric |-> metric, description |-> description]

features_config ==
    ("baseline" :> FeatureEntry("../bin/data/features/baseline_features.csv",
                                "ssd", "Baseline 7x7 Center Square"))
    @@ ("histogram" :> FeatureEntry("../bin/data/features/histogram_features.csv",
                                    "histogram", "RGB Color Histogram"))
    @@ ("chromaticity" :> FeatureEntry("../bin/data/features/chromaticity_features.csv",
                                       "histogram", "RG Chromaticity Histogram"))
    @@ ("multihistogram" :> FeatureEntry("../bin/data/features/multi_features.csv",
                                         "multiregion", "Multi-Region Histogram (2x2 Grid)"))
    @@ ("texturecolor" :> FeatureEntry("../bin/data/features/texture_features.csv",
                                       "weighted", "Sobel Texture + Color"))
    @@ ("gabor" :> FeatureEntry("../bin/data/features/gabor_features.csv",
                                "gabor", "Gabor Texture + Color (Advanced)"))
    @@ ("dnn" :> FeatureEntry("../bin/data/features/ResNet18_olym.csv",
                              "cosine", "ResNet18 DNN Embeddings (Pre-computed)"))
    @@ ("productmatcher" :> FeatureEntry("../bin/data/features/product_features.csv",
                                         "productmatcher",
                                         "Task 7: DNN(60%) + Center-Color(40%)"))
    @@ ("faceaware" :> FeatureEntry("../bin/data/features/faceaware_features.csv",
                                    "faceaware",
                                    "Extension: Adaptive Face-Aware Features"))

\* line 587: the columns of the result grid
cols == 3

\* line 203: the range the spin box's arrows step through
topn_from == 1
topn_to == 20

(***************************************************************************)
(* The state.                                                              *)
(***************************************************************************)
VARIABLES
    pc,                  \* where the program is: "start", "exited", "idle",
                         \* or blocked in a tool call: "building_selected",
                         \* "building_all", "querying"
    build_exe_exists,    \* the file system when the program starts
    query_exe_exists,
    image_dir_exists,
    features_dir_exists,
    ui_built,            \* create_ui has run
    selected_image_path, \* "" stands for None
    feature_var,
    metric_var,
    feature_desc,        \* the text of feature_desc_label
    topn_var,            \* the text in the top-N spin box
    build_status,        \* build_status_label
    query_status,        \* query_status_label
    widgets,             \* the children of results_inner_frame, in order
    result_images,       \* the retained PhotoImage references
    modal,               \* the message box the last handler showed
    unhandled,           \* the exception the last handler left uncaught
    build_idx,           \* build_all_databases while it runs: the position
    success_count,       \*   in the loop, its success count
    failed,              \*   and its failed list
    build_calls,         \* the build_database calls of the last build action,
                         \*   each with what it returned
    build_result,        \* how the last build_database call ended
    query_cmd,           \* the arguments of the last queryImage.exe call
    query_result         \* how the last queryImage.exe call ended, and the
                         \* records parse_and_display_results made of its output

vars ==
    <<pc, build_exe_exists, query_exe_exists, image_dir_exists, features_dir_exists,
      ui_built, selected_image_path, feature_var, metric_var, feature_desc, topn_var,
      build_status, query_status, widgets, result_images, modal, unhandled,
      build_idx, success_count, failed, build_calls, build_result, query_cmd,
      query_result>>

env_vars ==
    <<build_exe_exists, query_exe_exists, image_dir_exists, features_dir_exists>>

build_vars == <<build_status, build_idx, success_count, failed, build_calls, build_result>>

query_vars == <<query_status, widgets, result_images, query_cmd, query_result>>

config_vars == <<feature_var, metric_var, feature_desc, topn_var>>

(***************************************************************************)
(* What the handlers write.                                                *)
(***************************************************************************)
NoModal == [kind |-> "none", title |-> ""]

Modal(kind, title) == [kind |-> kind, title |-> title]

NoException == "none"

\* the text and colour of a status label; count and names are the values
\* the text is formatted from
Status(text, color, count, names) ==
    [text |-> text, color |-> color, count |-> count, names |-> names]

\* how a tool call ends: the process exits with a code, subprocess.run
\* raises TimeoutExpired, or it raises another exception (the spawn fails)
Exit(code, out) == [kind |-> "exit", returncode |-> code, stdout |-> out]
Timeout == [kind |-> "timeout", returncode |-> 0, stdout |-> ""]
SpawnError == [kind |-> "exception", returncode |-> 0, stdout |-> ""]
NoCall == [kind |-> "none", returncode |-> 0, stdout |-> ""]

\* the exit codes explored
ExitCodes == {0, 1}

BuildOutcomes == {Exit(c, "") : c \in ExitCodes} \cup {Timeout, SpawnError}

\* a failing tool prints nothing or prints a table all the same
QueryOutcomes(outs) ==
    {Exit(0, o) : o \in outs}
    \cup {Exit(c, o) : c \in ExitCodes \ {0}, o \in {"", "Rank Filename Distance\n1 img1.jpg 0.0000"}}
    \cup {Timeout, SpawnError}

NoBuild == [feature |-> "", outcome |-> NoCall, success |-> FALSE]

\* the outcome of a query call with the results parsed from its output
QueryResult(outcome, parsed) == [outcome |-> outcome, results |-> parsed]

NoQuery == QueryResult(NoCall, <<>>)

NoCmd == [image |-> "", csv |-> "", feature |-> "", metric |-> "", top_n |-> 0]

(***************************************************************************)
(* __init__ and verify_setup, lines 43-147, and create_ui, lines 149-260.  *)
(***************************************************************************)
Init ==
    /\ pc = "start"
    /\ build_exe_exists \in BOOLEAN
    /\ query_exe_exists \in BOOLEAN
    /\ image_dir_exists \in BOOLEAN
    /\ features_dir_exists \in BOOLEAN
    /\ ui_built = FALSE
    /\ selected_image_path = ""
    /\ feature_var = ""
    /\ metric_var = ""
    /\ feature_desc = ""
    /\ topn_var = ""
    /\ build_status = Status("", "", 0, <<>>)
    /\ query_status = Status("", "", 0, <<>>)
    /\ widgets = <<>>
    /\ result_images = <<>>
    /\ modal = NoModal
    /\ unhandled = NoException
    /\ build_idx = 0
    /\ success_count = 0
    /\ failed = <<>>
    /\ build_calls = <<>>
    /\ build_result = NoBuild
    /\ query_cmd = NoCmd
    /\ query_result = NoQuery

\* a variant of on_feature_changed that fills the metric field once and
\* does not update it afterwards
OnFeatureChangedOnce(feature) ==
    /\ metric_var' = IF metric_var = "" THEN features_config[feature].metric ELSE metric_var
    /\ feature_desc' = features_config[feature].description

\* lines 262-271, for the feature the variable holds
OnFeatureChanged(feature) ==
    /\ metric_var' = features_config[feature].metric
    /\ feature_desc' = features_config[feature].description

\* lines 149-260
CreateUi ==
    /\ ui_built' = TRUE
    /\ feature_var' = "histogram"
    /\ topn_var' = "9"
    /\ OnFeatureChanged("histogram")
    /\ build_status' = Status("Ready to build databases", "gray", 0, <<>>)
    /\ query_status' = Status("Select image and click to query", "gray", 0, <<>>)

\* lines 116-147: the message box verify_setup shows
SetupModal ==
    IF ~build_exe_exists \/ ~query_exe_exists THEN Modal("error", "Setup Error")
    ELSE IF ~image_dir_exists THEN Modal("warning", "Setup Warning")
    ELSE NoModal

\* a variant of verify_setup that checks the build tool only
SetupFatalBuildOnly == ~build_exe_exists

\* lines 121-135: verify_setup calls sys.exit(1)
SetupFatal == ~build_exe_exists \/ ~query_exe_exists

\* CBIRGui(root), lines 43-114
Startup ==
    /\ pc = "start"
    /\ features_dir_exists' = TRUE
    /\ modal' = SetupModal
    /\ IF SetupFatal
       THEN /\ pc' = "exited"
            /\ UNCHANGED <<ui_built, config_vars, build_status, query_status>>
       ELSE /\ pc' = "idle"
            /\ CreateUi
    /\ UNCHANGED <<build_exe_exists, query_exe_exists, image_dir_exists,
                   selected_image_path, widgets, result_images, unhandled,
                   build_idx, success_count, failed, build_calls, build_result,
                   query_cmd, query_result>>

(***************************************************************************)
(* The feature selector and the top-N spin box.                            *)
(***************************************************************************)
\* the combobox sets feature_var and fires on_feature_changed, lines 262-271
ChangeFeature(feature) ==
    /\ pc = "idle"
    /\ feature_var' = feature
    /\ OnFeatureChanged(feature)
    /\ modal' = NoModal
    /\ unhandled' = NoException
    /\ UNCHANGED <<pc, env_vars, ui_built, selected_image_path, topn_var,
                   build_vars, query_vars>>

\* lines 202-204: the spin box is an entry the user can type any text into;
\* from_ and to only bound what its arrows step through
TypeTopN(text) ==
    /\ pc = "idle"
    /\ topn_var' = text
    /\ UNCHANGED <<pc, env_vars, ui_built, selected_image_path, feature_var,
                   metric_var, feature_desc, build_vars, query_vars, modal, unhandled>>

(***************************************************************************)
(* clear_results, show_query_preview, select_image, display_results.       *)
(***************************************************************************)
\* lines 299-319: the widgets of a preview; the header label is created
\* before Image.open, which may raise
PreviewWidgets(path, loaded) ==
    <<[type |-> "preview_header", row |-> 0, column |-> 0, text |-> "Query Image Preview"]>>
    \o (IF loaded
        THEN <<[type |-> "preview_image", row |-> 1, column |-> 0, text |-> path],
               [type |-> "preview_filename", row |-> 2, column |-> 0, text |-> path]>>
        ELSE <<>>)

\* lines 273-293 and 295-322
SelectImage(filepath, loaded) ==
    /\ pc = "idle"
    /\ modal' = NoModal
    /\ unhandled' = NoException
    /\ IF filepath # ""
       THEN /\ selected_image_path' = filepath
            /\ widgets' = PreviewWidgets(filepath, loaded)
            /\ result_images' = <<>>
       ELSE UNCHANGED <<selected_image_path, widgets, result_images>>
    /\ UNCHANGED <<pc, env_vars, ui_built, config_vars, build_vars,
                   query_status, query_cmd, query_result>>

\* lines 567-584
HeaderFrame(image, feature, metric, n) ==
    [type |-> "header_frame", row |-> 0, column |-> 0,
     query |-> image, feature |-> feature, metric |-> metric, count |-> n]

\* lines 591-592
GridRow(idx) == (idx \div cols) + 1
GridColumn(idx) == idx % cols

\* lines 595-640: the frame of the result at index idx; Image.open raised
\* unless loaded
ResultFrame(idx, result, loaded) ==
    [type |-> "result_frame", row |-> GridRow(idx), column |-> GridColumn(idx),
     index |-> idx, result |-> result,
     content |-> IF loaded THEN "image" ELSE "error",
     rank_color |-> IF ~loaded THEN "red" ELSE IF result.rank = 1 THEN "green" ELSE "blue",
     query_mark |-> loaded /\ result.rank = 1]

\* a variant of display_results without the call of clear_results: the new
\* frames are added to the ones already there
DisplayWidgetsKeepsOld(rs, image, feature, metric, ok) ==
    widgets
    \o <<HeaderFrame(image, feature, metric, Len(rs))>>
    \o [i \in 1..Len(rs) |-> ResultFrame(i - 1, rs[i], rs[i].filename \in ok)]

\* a variant of display_results without the try/except around the image
\* load: the first image that fails to load ends the rendering
DisplayWidgetsAborts(rs, image, feature, metric, ok) ==
    LET bad == {i \in 1..Len(rs) : rs[i].filename \notin ok}
        last == IF bad = {} THEN Len(rs)
                ELSE (CHOOSE i \in bad : \A j \in bad : i <= j) - 1
    IN <<HeaderFrame(image, feature, metric, Len(rs))>>
       \o [i \in 1..last |-> ResultFrame(i - 1, rs[i], TRUE)]

\* lines 561-640: the children of results_inner_frame after display_results;
\* ok holds the filenames Image.open can load
DisplayWidgets(rs, image, feature, metric, ok) ==
    <<HeaderFrame(image, feature, metric, Len(rs))>>
    \o [i \in 1..Len(rs) |-> ResultFrame(i - 1, rs[i], rs[i].filename \in ok)]

\* a variant in which clear_results leaves the list of photos as it is
DisplayImagesKeepsOld(rs, ok) ==
    result_images
    \o SelectSeq([i \in 1..Len(rs) |-> rs[i].filename], LAMBDA f : f \in ok)

\* line 634: the photos display_results retains, after clear_results
DisplayImages(rs, ok) ==
    SelectSeq([i \in 1..Len(rs) |-> rs[i].filename], LAMBDA f : f \in ok)

FilenamesOf(rs) == {rs[i].filename : i \in 1..Len(rs)}

(***************************************************************************)
(* build_database, build_selected_database, build_all_databases.           *)
(***************************************************************************)
\* a variant of build_database that does not look at the exit code
BuildDatabaseAnyExit(outcome) == outcome.kind = "exit"

\* lines 390-431: what build_database returns
BuildDatabase(outcome) == outcome.kind = "exit" /\ outcome.returncode = 0

\* a build_database call: its feature, how the tool ended, what it returned
BuildCall(feature, outcome) ==
    [feature |-> feature, outcome |-> outcome, success |-> BuildDatabase(outcome)]

\* lines 353-364, up to the blocking call
BuildSelectedStart ==
    /\ pc = "idle"
    /\ pc' = "building_selected"
    /\ build_status' = Status("Building database... Please wait...", "orange", 0, <<feature_var>>)
    /\ build_calls' = <<>>
    /\ modal' = NoModal
    /\ unhandled' = NoException
    /\ UNCHANGED <<env_vars, ui_built, selected_image_path, config_vars, query_vars,
                   build_idx, success_count, failed, build_result>>

\* lines 364-377, from the return of the call
BuildSelectedReturn(outcome) ==
    /\ pc = "building_selected"
    /\ pc' = "idle"
    /\ build_result' = BuildCall(feature_var, outcome)
    /\ build_calls' = <<[feature |-> feature_var, success |-> BuildDatabase(outcome)]>>
    /\ IF BuildDatabase(outcome)
       THEN /\ build_status' = Status("Database built successfully!", "green", 0,
                                      <<features_config[feature_var].csv>>)
            /\ modal' = Modal("info", "Success")
       ELSE /\ build_status' = Status("Failed to build database", "red", 0, <<feature_var>>)
            /\ modal' = Modal("error", "Error")
    /\ UNCHANGED <<env_vars, ui_built, selected_image_path, config_vars, query_vars,
                   unhandled, build_idx, success_count, failed>>

\* lines 324-335, up to the first blocking call
BuildAllStart ==
    /\ pc = "idle"
    /\ pc' = "building_all"
    /\ build_status' = Status("Building all databases... Please wait...", "orange", 0, <<>>)
    /\ success_count' = 0
    /\ failed' = <<>>
    /\ build_idx' = 1
    /\ build_calls' = <<>>
    /\ modal' = NoModal
    /\ unhandled' = NoException
    /\ UNCHANGED <<env_vars, ui_built, selected_image_path, config_vars, query_vars,
                   build_result>>

\* a variant that counts every call, successful or not
SuccessCountAlways(count, success) == count + 1

\* lines 336-337
SuccessCountAfter(count, success) == IF success THEN count + 1 ELSE count

\* lines 338-339
FailedAfter(names, feature, success) == IF success THEN names ELSE Append(names, feature)

\* lines 333-339: one iteration of the loop, ended by the return of its
\* build_database call; at most maxFailed calls of a batch fail
BuildAllStep(outcome, maxFailed) ==
    /\ pc = "building_all"
    /\ build_idx <= Len(FeatureOrder)
    /\ BuildDatabase(outcome) \/ Len(failed) < maxFailed
    /\ build_calls' = Append(build_calls, [feature |-> FeatureOrder[build_idx],
                                           success |-> BuildDatabase(outcome)])
    /\ build_result' = BuildCall(FeatureOrder[build_idx], outcome)
    /\ success_count' = SuccessCountAfter(success_count, BuildDatabase(outcome))
    /\ failed' = FailedAfter(failed, FeatureOrder[build_idx], BuildDatabase(outcome))
    /\ build_idx' = build_idx + 1
    /\ UNCHANGED <<pc, env_vars, ui_built, selected_image_path, config_vars, query_vars,
                   build_status, modal, unhandled>>

\* lines 341-351
BuildAllFinish ==
    /\ pc = "building_all"
    /\ build_idx > Len(FeatureOrder)
    /\ pc' = "idle"
    /\ IF failed # <<>>
       THEN /\ build_status' = Status("Built M/K databases. Failed: names", "orange",
                                      success_count, failed)
            /\ modal' = Modal("warning", "Partial Success")
       ELSE /\ build_status' = Status("All M databases built successfully!", "green",
                                      success_count, <<>>)
            /\ modal' = Modal("info", "Success")
    /\ build_idx' = 0
    /\ success_count' = 0
    /\ failed' = <<>>
    /\ UNCHANGED <<env_vars, ui_built, selected_image_path, config_vars, query_vars,
                   unhandled, build_calls, build_result>>

(***************************************************************************)
(* find_matches and parse_and_display_results.                             *)
(***************************************************************************)
\* lines 433-458, up to the blocking call; csv_exists is what
\* os.path.exists(csv_file) returns
FindMatchesStart(csv_exists) ==
    /\ pc = "idle"
    /\ IF selected_image_path = ""
       THEN /\ modal' = Modal("error", "Error")
            /\ unhandled' = NoException
            /\ UNCHANGED <<pc, query_status, query_cmd>>
       ELSE IF ~IsPyInt(topn_var)
       THEN \* line 445: int() raises ValueError outside the try block
            /\ modal' = NoModal
            /\ unhandled' = "ValueError"
            /\ UNCHANGED <<pc, query_status, query_cmd>>
       ELSE IF ~csv_exists
       THEN /\ modal' = Modal("error", "Database Not Found")
            /\ unhandled' = NoException
            /\ UNCHANGED <<pc, query_status, query_cmd>>
       ELSE /\ modal' = NoModal
            /\ unhandled' = NoException
            /\ pc' = "querying"
            /\ query_status' = Status("Querying... Please wait...", "orange", 0,
                                      <<feature_var>>)
            /\ query_cmd' = [image |-> selected_image_path,
                             csv |-> features_config[feature_var].csv,
                             feature |-> feature_var,
                             metric |-> features_config[feature_var].metric,
                             top_n |-> PyInt(topn_var)]
    /\ UNCHANGED <<env_vars, ui_built, selected_image_path, config_vars, build_vars,
                   widgets, result_images, query_result>>

\* lines 507-559, called at line 490 with the feature and metric of the call
ParseAndDisplayResults(output, ok) ==
    \E rs \in {ParseResults(output)} :
       /\ query_result' = QueryResult(Exit(0, output), rs)
       /\ IF rs # <<>>
          THEN /\ query_status' = Status("Found N matches", "green", Len(rs),
                                         <<query_cmd.feature>>)
               /\ widgets' = DisplayWidgets(rs, selected_image_path, query_cmd.feature,
                                            query_cmd.metric, ok)
               /\ result_images' = DisplayImages(rs, ok)
               /\ modal' = NoModal
          ELSE /\ query_status' = Status("No results found", "red", 0, <<>>)
               /\ modal' = Modal("warning", "No Results")
               /\ UNCHANGED <<widgets, result_images>>

\* a variant of find_matches without the handler of TimeoutExpired: the
\* status label is left as it was
QueryFailureStatusNoTimeout(outcome) ==
    IF outcome.kind = "exit" THEN Status("Query failed!", "red", 0, <<>>)
    ELSE IF outcome.kind = "timeout" THEN query_status
    ELSE Status("Query error!", "red", 0, <<>>)

\* lines 491-505: the status find_matches sets when the call did not exit
\* with code zero
QueryFailureStatus(outcome) ==
    IF outcome.kind = "exit" THEN Status("Query failed!", "red", 0, <<>>)
    ELSE IF outcome.kind = "timeout" THEN Status("Query timeout!", "red", 0, <<>>)
    ELSE Status("Query error!", "red", 0, <<>>)

\* lines 477-505, from the return of the call
FindMatchesReturn(outcome, ok) ==
    /\ pc = "querying"
    /\ pc' = "idle"
    /\ IF outcome.kind = "exit" /\ outcome.returncode = 0
       THEN ParseAndDisplayResults(outcome.stdout, ok)
       ELSE /\ query_status' = QueryFailureStatus(outcome)
            /\ modal' =
                  IF outcome.kind = "exit" THEN Modal("error", "Query Error")
                  ELSE IF outcome.kind = "timeout" THEN Modal("error", "Timeout")
                  ELSE Modal("error", "Error")
            /\ query_result' = QueryResult(outcome, <<>>)
            /\ UNCHANGED <<widgets, result_images>>
    /\ UNCHANGED <<env_vars, ui_built, selected_image_path, config_vars, build_vars,
                   unhandled, query_cmd>>

(***************************************************************************)
(* The inputs explored.                                                    *)
(***************************************************************************)
\* every sequence over S of length at most n
SeqsUpTo(S, n) == UNION {[1..k -> S] : k \in 0..n}

RECURSIVE JoinLines(_)
\* "\n".join(ls)
JoinLines(ls) ==
    IF ls = <<>> THEN ""
    ELSE IF Len(ls) = 1 THEN ls[1]
    ELSE ls[1] \o "\n" \o JoinLines(Tail(ls))

HeaderText == "Rank Filename Distance"
Row1 == "1 img1.jpg 0.0000"
Row2 == "2 img2.jpg 0.2345"

\* the lines free-form outputs are made of
Lines ==
    {HeaderText, Row1, Row2,
     " ",                           \* a blank line
     "====",                        \* a banner
     " ===",                        \* a banner behind a space
     "3 img1.jpg",                  \* fewer than three tokens
     "Rank Filename 0.5",           \* two of the header words; no integer rank
     "4 img2.jpg Distance",         \* no numeric distance
     "-1 img1.jpg -0.5",            \* a negative rank and distance
     "5 RankFilenameDistance 0.5",  \* a row whose filename holds the header words
     "=Rank Filename Distance"}     \* a banner that holds the header words

FreeOutputs == {JoinLines(ls) : ls \in SeqsUpTo(Lines, MaxLines)}

\* a header and up to MaxRows well-formed rows
TableOutputs ==
    {JoinLines(<<HeaderText>> \o rows) : rows \in SeqsUpTo({Row1, Row2}, MaxRows)}

\* ls with the line x put in before position i
InsertAt(ls, i, x) == SubSeq(ls, 1, i - 1) \o <<x>> \o SubSeq(ls, i, Len(ls))

\* a table with one more line of Lines put in anywhere
BrokenTableOutputs ==
    UNION {{JoinLines(InsertAt(<<HeaderText>> \o rows, i, x)) :
                i \in 1..(Len(rows) + 2), x \in Lines} :
           rows \in SeqsUpTo({Row1, Row2}, MaxRows)}

Outputs == FreeOutputs \cup TableOutputs \cup BrokenTableOutputs

\* the outputs of the sessions of Spec: no header, two rows, and a row on
\* each side of a banner
SessionOutputs ==
    {Row1,
     JoinLines(<<HeaderText, Row1, Row2>>),
     JoinLines(<<HeaderText, Row2, "====", Row1>>)}

\* the images the user picks; "" is a cancelled dialog
QueryImages == {"q1.jpg"}

\* the features the user selects
PickedFeatures == {"baseline", "histogram"}

\* the texts the user leaves in the top-N spin box
TopNTexts == {"9", "1", "20", "21", "0", "abc"}

(***************************************************************************)
(* The specifications.                                                     *)
(***************************************************************************)
UserChangesFeature == \E f \in PickedFeatures : ChangeFeature(f)

UserTypesTopN == \E t \in TopNTexts : TypeTopN(t)

UserSelectsImage == \E path \in QueryImages \cup {""}, loaded \in BOOLEAN : SelectImage(path, loaded)

UserFindsMatches == \E csv_exists \in BOOLEAN : FindMatchesStart(csv_exists)

QueryReturns(outs) ==
    /\ pc = "querying"
    /\ \E outcome \in QueryOutcomes(outs) :
           \E ok \in SUBSET FilenamesOf(ParseResults(outcome.stdout)) :
               FindMatchesReturn(outcome, ok)

BuildSelectedReturns == \E outcome \in BuildOutcomes : BuildSelectedReturn(outcome)

BuildAllSteps(maxFailed) == \E outcome \in BuildOutcomes : BuildAllStep(outcome, maxFailed)

\* a session: every user action, with the session inputs
Next ==
    \/ Startup
    \/ UserChangesFeature
    \/ UserSelectsImage
    \/ BuildSelectedStart
    \/ BuildSelectedReturns
    \/ BuildAllStart
    \/ BuildAllSteps(MaxFailed)
    \/ BuildAllFinish
    \/ UserFindsMatches
    \/ QueryReturns(SessionOutputs)

Spec == Init /\ [][Next]_vars

\* the build actions, with every pattern of outcomes
BuildNext ==
    \/ Startup
    \/ UserChangesFeature
    \/ BuildSelectedStart
    \/ BuildSelectedReturns
    \/ BuildAllStart
    \/ BuildAllSteps(Len(FeatureOrder))
    \/ BuildAllFinish

\* the configuration and query actions
ConfigNext ==
    \/ Startup
    \/ UserChangesFeature
    \/ UserTypesTopN
    \/ UserSelectsImage
    \/ UserFindsMatches
    \/ QueryReturns(SessionOutputs)

ConfigSpec == Init /\ [][ConfigNext]_vars

BuildSpec == Init /\ [][BuildNext]_vars

\* the build and query actions of a session; a tool call returns, by its
\* timeout at the latest (lines 409 and 481), and the loop of
\* build_all_databases goes through the nine features and ends
FairNext ==
    \/ Startup
    \/ UserSelectsImage
    \/ BuildSelectedStart
    \/ BuildSelectedReturns
    \/ BuildAllStart
    \/ BuildAllSteps(MaxFailed)
    \/ BuildAllFinish
    \/ UserFindsMatches
    \/ QueryReturns(SessionOutputs)

\* the steps that end a build call or the batch, and the step that ends a
\* query call at its timeout if nothing ended it before; pc enables one
\* of them at a time
ToolReturns ==
    \/ BuildSelectedReturns
    \/ BuildAllSteps(MaxFailed)
    \/ BuildAllFinish
    \/ FindMatchesReturn(Timeout, {})

FairSpec == Init /\ [][FairNext]_vars /\ WF_vars(ToolReturns)

\* a query in flight: the state find_matches blocks in after the user
\* started the program, picked q1.jpg and clicked find
QueryInit ==
    /\ pc = "querying"
    /\ build_exe_exists = TRUE
    /\ query_exe_exists = TRUE
    /\ image_dir_exists = TRUE
    /\ features_dir_exists = TRUE
    /\ ui_built = TRUE
    /\ selected_image_path = "q1.jpg"
    /\ feature_var = "histogram"
    /\ metric_var = "histogram"
    /\ feature_desc = "RGB Color Histogram"
    /\ topn_var = "9"
    /\ build_status = Status("Ready to build databases", "gray", 0, <<>>)
    /\ query_status = Status("Querying... Please wait...", "orange", 0, <<"histogram">>)
    /\ widgets = PreviewWidgets("q1.jpg", TRUE)
    /\ result_images = <<>>
    /\ modal = NoModal
    /\ unhandled = NoException
    /\ build_idx = 0
    /\ success_count = 0
    /\ failed = <<>>
    /\ build_calls = <<>>
    /\ build_result = NoBuild
    /\ query_cmd = [image |-> "q1.jpg",
                    csv |-> "../bin/data/features/histogram_features.csv",
                    feature |-> "histogram", metric |-> "histogram", top_n |-> 9]
    /\ query_result = NoQuery

\* the return of that query, with every output
QueryNext == QueryReturns(Outputs)

QuerySpec == QueryInit /\ [][QueryNext]_vars

(***************************************************************************)
(* What the claims are stated with.                                        *)
(***************************************************************************)
HeaderWords == {"Rank", "Filename", "Distance"}

\* the line holds every header word
NamesHeader(line) == \A w \in HeaderWords : Contains(line, w)

\* the line's first character is the banner character
BeginsWithBanner(line) == Len(line) >= 1 /\ Char(line, 1) = "="

\* the line is '<rank> <filename> <distance>'
WellFormedRow(line) ==
    \E p \in {Split(line)} : Len(p) = 3 /\ IsPyInt(p[1]) /\ IsPyFloat(p[3])

\* the first three tokens of the line are an integer, a token and a number
ReadableRow(line) ==
    \E p \in {Split(line)} : Len(p) >= 3 /\ IsPyInt(p[1]) /\ IsPyFloat(p[3])

\* the record a readable row stands for
RecordOf(line) ==
    LET p == Split(line)
    IN [rank |-> PyInt(p[1]), filename |-> p[2], distance |-> PyFloat(p[3])]

\* the position of the first header line, 0 when there is none
FirstHeader(lines) ==
    IF \E h \in 1..Len(lines) : NamesHeader(lines[h])
    THEN CHOOSE h \in 1..Len(lines) :
             NamesHeader(lines[h]) /\ \A j \in 1..(h - 1) : ~NamesHeader(lines[j])
    ELSE 0

\* the position of the first line after h that begins with the banner
\* character, Len(lines) + 1 when there is none
FirstBannerAfter(lines, h) ==
    IF \E b \in (h + 1)..Len(lines) : BeginsWithBanner(lines[b])
    THEN CHOOSE b \in (h + 1)..Len(lines) :
             BeginsWithBanner(lines[b]) /\ \A j \in (h + 1)..(b - 1) : ~BeginsWithBanner(lines[j])
    ELSE Len(lines) + 1

RECURSIVE RecordsBetween(_, _, _)
\* the records of the readable rows among lines[from..to - 1], in order
RecordsBetween(lines, from, to) ==
    IF from >= to THEN <<>>
    ELSE (IF ReadableRow(lines[from]) THEN <<RecordOf(lines[from])>> ELSE <<>>)
         \o RecordsBetween(lines, from + 1, to)

\* the records of the rows after the first header, at position h, and
\* before the first banner line that follows it
RowsOfTable(lines, h) ==
    IF h = 0 THEN <<>>
    ELSE RecordsBetween(lines, h + 1, FirstBannerAfter(lines, h))

\* the last query tool call exited with code zero and find_matches returned
QueryExitedZero ==
    /\ pc = "idle"
    /\ query_result.outcome.kind = "exit"
    /\ query_result.outcome.returncode = 0

\* the lines of what that call printed
StdoutLines == SplitLines(query_result.outcome.stdout)

\* the result records the frames of a widget list show, in order
ShownResults(w) ==
    LET frames == SelectSeq(w, LAMBDA x : x.type = "result_frame")
    IN [i \in 1..Len(frames) |-> frames[i].result]

(***************************************************************************)
(* C1                                                                      *)
(***************************************************************************)
\* C1: when the output is lines without the header words, then a header
\* line, then only well-formed rows '<rank> <filename> <distance>', the
\* parser produces exactly one record per row, in the order of the rows,
\* with the rank, filename and distance of that row.
C1_OneRecordPerRow ==
    QueryExitedZero =>
        \A lines \in {StdoutLines} :
            \A h \in {FirstHeader(lines)} :
                (h > 0 /\ \A j \in (h + 1)..Len(lines) : WellFormedRow(lines[j]))
                => query_result.results
                       = [i \in 1..(Len(lines) - h) |-> RecordOf(lines[h + i])]

\* The same for rows that do not themselves hold the three header words
\* (the parser takes a row that does for another header line and skips it).
OneRecordPerPlainRow ==
    QueryExitedZero =>
        \A lines \in {StdoutLines} :
            \A h \in {FirstHeader(lines)} :
                (h > 0 /\ \A j \in (h + 1)..Len(lines) :
                              WellFormedRow(lines[j]) /\ ~NamesHeader(lines[j]))
                => query_result.results
                       = [i \in 1..(Len(lines) - h) |-> RecordOf(lines[h + i])]

(***************************************************************************)
(* C2                                                                      *)
(***************************************************************************)
\* a line that is no header, no banner and no readable row
Unreadable(line) == ~ReadableRow(line) /\ ~NamesHeader(line) /\ ~BeginsWithBanner(line)

\* C2: a row with fewer than three tokens, or whose first token is no
\* integer or whose third is no number, is dropped without an error and
\* leaves no record, and the rows around it are parsed as if it were not
\* there: the parser's results are those of the output without such rows.
C2_MalformedRowsDropped ==
    QueryExitedZero =>
        /\ unhandled = NoException
        /\ query_result.results
               = ParseResults(JoinLines(SelectSeq(StdoutLines, LAMBDA l : ~Unreadable(l))))

\* a header, a row, one row of each malformed kind, and a row: both rows
\* are kept
C2_Witness ==
    /\ QueryExitedZero
    /\ \E x \in {"3 img1.jpg", "Rank Filename 0.5", "4 img2.jpg Distance"} :
           StdoutLines = <<HeaderText, Row1, x, Row2>>
    /\ query_result.results = <<RecordOf(Row1), RecordOf(Row2)>>

(***************************************************************************)
(* C3                                                                      *)
(***************************************************************************)
\* C3: when no line of the output holds all of Rank, Filename and Distance,
\* the parser produces no record and raises no error, the query status
\* becomes 'No results found', and the results area is left as it was (it
\* showed the preview of q1.jpg when the query started).
C3_NoHeaderNoRecords ==
    (QueryExitedZero /\ \A lines \in {StdoutLines} :
                            \A j \in 1..Len(lines) : ~NamesHeader(lines[j]))
    => /\ query_result.results = <<>>
       /\ unhandled = NoException
       /\ query_status.text = "No results found"
       /\ widgets = PreviewWidgets("q1.jpg", TRUE)
       /\ result_images = <<>>

\* rows that look well-formed, and a line with two of the header words,
\* but no header
C3_Witness ==
    /\ QueryExitedZero
    /\ StdoutLines = <<"Rank Filename 0.5", Row1, Row2>>
    /\ query_status.text = "No results found"

(***************************************************************************)
(* C4                                                                      *)
(***************************************************************************)
\* C4: the parser's records are those of the rows after the first header
\* line and before the first later line that begins with the banner
\* character: no row before the header and no row after that line is
\* included.
C4_RowsBetweenHeaderAndBanner ==
    QueryExitedZero =>
        \A lines \in {StdoutLines} :
            \A h \in {FirstHeader(lines)} :
                query_result.results = RowsOfTable(lines, h)

\* The same for outputs in which no line after the first header holds the
\* three header words.
RowsBetweenHeaderAndBannerPlain ==
    QueryExitedZero =>
        \A lines \in {StdoutLines} :
            \A h \in {FirstHeader(lines)} :
                (\A j \in (h + 1)..Len(lines) : ~NamesHeader(lines[j]))
                => query_result.results = RowsOfTable(lines, h)

(***************************************************************************)
(* C5                                                                      *)
(***************************************************************************)
\* the calls that returned True
Successes(calls) == Cardinality({i \in 1..Len(calls) : calls[i].success})

\* the features of the calls that returned False, in call order
FailedNames(calls) ==
    LET bad == SelectSeq(calls, LAMBDA c : ~c.success)
    IN [i \in 1..Len(bad) |-> bad[i].feature]

\* the calls so far are one per feature, in registry order
OncePerFeature(calls) ==
    /\ Len(calls) <= Len(FeatureOrder)
    /\ \A i \in 1..Len(calls) : calls[i].feature = FeatureOrder[i]

\* C5: build-all calls the builder once for every feature type, going on
\* after a failure; when M of the K calls succeed it reports the count M
\* and exactly the K - M failed names, and it reports 'all built' only
\* when M = K.
C5_BuildAllReports ==
    /\ pc = "building_all" =>
           /\ OncePerFeature(build_calls)
           /\ Len(build_calls) = build_idx - 1
           /\ success_count = Successes(build_calls)
           /\ failed = FailedNames(build_calls)
    /\ (pc = "idle" /\ build_status.text \in {"Built M/K databases. Failed: names",
                                             "All M databases built successfully!"}) =>
           /\ OncePerFeature(build_calls)
           /\ Len(build_calls) = Len(FeatureOrder)
           /\ build_status.count = Successes(build_calls)
           /\ build_status.names = FailedNames(build_calls)
           /\ build_status.count + Len(build_status.names) = Len(FeatureOrder)
           /\ (build_status.text = "All M databases built successfully!")
                  <=> (Successes(build_calls) = Len(FeatureOrder))

\* the first and the seventh build failed and the batch went on to the end
C5_Witness ==
    /\ pc = "idle"
    /\ build_status.text = "Built M/K databases. Failed: names"
    /\ build_status.count = 7
    /\ build_status.names = <<"baseline", "dnn">>
    /\ Len(build_calls) = 9

(***************************************************************************)
(* C6                                                                      *)
(***************************************************************************)
\* the tool ran to completion with exit code zero
ExitedZero(outcome) == outcome.kind = "exit" /\ outcome.returncode = 0

\* C6: a tool call counts as a success exactly when the process completes
\* with exit code zero; after a non-zero exit, a timeout or a spawn
\* exception build_database returns False and the build status reports the
\* failure, find_matches sets a failure status, and in every case the
\* handler returns with no exception left uncaught.
C6_SuccessIffExitZero ==
    /\ build_result # NoBuild => (build_result.success <=> ExitedZero(build_result.outcome))
    /\ \A i \in 1..Len(build_calls) :
           i = Len(build_calls) => (build_calls[i].success <=> ExitedZero(build_result.outcome))
    /\ (pc = "idle" /\ build_status.text \in {"Database built successfully!",
                                             "Failed to build database"}) =>
           /\ (build_status.text = "Database built successfully!")
                  <=> ExitedZero(build_result.outcome)
           /\ build_status.color = IF ExitedZero(build_result.outcome) THEN "green" ELSE "red"
    /\ (pc = "idle" /\ query_result.outcome.kind # "none") =>
           /\ ExitedZero(query_result.outcome)
                  <=> query_status.text \in {"Found N matches", "No results found"}
           /\ (query_result.outcome.kind = "exit" /\ ~ExitedZero(query_result.outcome))
                  <=> (query_status.text = "Query failed!")
           /\ (query_result.outcome.kind = "timeout") <=> (query_status.text = "Query timeout!")
           /\ (query_result.outcome.kind = "exception") <=> (query_status.text = "Query error!")
           /\ ~ExitedZero(query_result.outcome) => query_status.color = "red"
    /\ pc = "idle" => unhandled = NoException

\* a build that timed out and a query that could not be spawned, both
\* reported, with the interface idle again
C6_Witness ==
    /\ pc = "idle"
    /\ build_result.outcome = Timeout
    /\ build_status.text = "Failed to build database"
    /\ query_result.outcome = SpawnError
    /\ query_status.text = "Query error!"

(***************************************************************************)
(* C7                                                                      *)
(***************************************************************************)
\* C7, as claimed: the results shown after a query are those of that query,
\* and any other user action discards them.
C7_DiscardedOnNextAction ==
    [][/\ (pc = "querying" /\ pc' = "idle")
              => ShownResults(widgets') = query_result'.results
       /\ (pc = "idle" /\ pc' # "querying")
              => ShownResults(widgets') = <<>>]_vars

\* a step of select_image with a chosen file
ImageChosen == \E path \in QueryImages, loaded \in BOOLEAN : SelectImage(path, loaded)

\* a step in which a query returns with at least one record
QueryFoundRecords ==
    pc = "querying" /\ pc' = "idle" /\ query_result'.results # <<>>

\* C7, amended: the results shown are those of the most recent query that
\* produced at least one record since the last image selection. Such a query
\* replaces what was shown by exactly its own records; choosing an image
\* discards them; every other step (a feature change, a build, a cancelled
\* image dialog, a refused query, a query that fails or yields no record)
\* leaves them shown as they were.
C7_ReplacedOrKept ==
    [][/\ QueryFoundRecords => ShownResults(widgets') = query_result'.results
       /\ ImageChosen => ShownResults(widgets') = <<>>
       /\ (~QueryFoundRecords /\ ~ImageChosen)
              => ShownResults(widgets') = ShownResults(widgets)]_vars

\* the two records of an earlier query are still shown after a later query
\* timed out and the feature was changed
C7_Witness ==
    /\ pc = "idle"
    /\ ShownResults(widgets) = <<RecordOf(Row1), RecordOf(Row2)>>
    /\ query_result.outcome = Timeout
    /\ widgets[1].feature # feature_var

(***************************************************************************)
(* C8                                                                      *)
(***************************************************************************)
\* C8: display_results gives every result at index i exactly one frame, at
\* grid row i div 3 + 1 and column i mod 3, whether or not its image
\* loaded: a failed load puts an error placeholder in that frame and the
\* results after it are rendered all the same.
C8_OneFramePerResult ==
    (QueryExitedZero /\ query_result.results # <<>>) =>
        /\ Len(widgets) = 1 + Len(query_result.results)
        /\ widgets[1].type = "header_frame"
        /\ \A i \in 0..(Len(query_result.results) - 1) :
               /\ widgets[i + 2].type = "result_frame"
               /\ widgets[i + 2].result = query_result.results[i + 1]
               /\ widgets[i + 2].row = (i \div 3) + 1
               /\ widgets[i + 2].column = i % 3
               /\ widgets[i + 2].content \in {"image", "error"}
        /\ result_images
               = LET shown == SelectSeq(Tail(widgets), LAMBDA x : x.content = "image")
                 IN [i \in 1..Len(shown) |-> shown[i].result.filename]

\* the first image failed to load and the fourth result, which loaded, is
\* in the first cell of the second row
C8_Witness ==
    /\ QueryExitedZero
    /\ Len(widgets) = 5
    /\ widgets[2].content = "error"
    /\ widgets[5].content = "image"
    /\ widgets[5].row = 2
    /\ widgets[5].column = 0

(***************************************************************************)
(* C9                                                                      *)
(***************************************************************************)
\* C9, as claimed: when an executable or a required directory is absent at
\* the start, the process terminates and the interface is never built.
C9_FatalWhenAnythingAbsent ==
    (pc # "start" /\ (~build_exe_exists \/ ~query_exe_exists \/ ~image_dir_exists))
    => (pc = "exited" /\ ~ui_built)

\* C9, amended: setup failure is fatal exactly when buildFeatureDB.exe or
\* queryImage.exe is absent at the start: the process then terminates after
\* a modal error and the interface is never built. An absent image
\* directory does not stop the start (the interface is built), and the
\* features directory is created when absent.
C9_FatalWhenExecutableAbsent ==
    pc # "start" =>
        /\ (~build_exe_exists \/ ~query_exe_exists) <=> (pc = "exited")
        /\ pc = "exited" => (~ui_built /\ modal = Modal("error", "Setup Error"))
        /\ pc # "exited" => ui_built
        /\ features_dir_exists

\* the process ended for the missing query tool alone
C9_Witness ==
    /\ pc = "exited"
    /\ build_exe_exists
    /\ ~query_exe_exists
    /\ image_dir_exists
    /\ ~ui_built

(***************************************************************************)
(* C10                                                                     *)
(***************************************************************************)
\* C10: the top-N argument of every query tool call is an integer from 1
\* to 20, whatever text the spin box holds, and find_matches leaves no
\* exception uncaught because of that text.
C10_TopNBounded ==
    /\ query_cmd # NoCmd => query_cmd.top_n \in topn_from..topn_to
    /\ unhandled = NoException

(***************************************************************************)
(* C11                                                                     *)
(***************************************************************************)
\* C11: every record the parser produces has a rank that is a positive
\* integer and a distance that is a non-negative number, whatever text the
\* tool printed.
C11_PositiveRankNonNegativeDistance ==
    QueryExitedZero =>
        \A i \in 1..Len(query_result.results) :
            /\ query_result.results[i].rank \in Nat \ {0}
            /\ query_result.results[i].distance.mant >= 0

\* the row carries a rank below one or a distance below zero
SignedRow(line) ==
    \E p \in {Split(line)} :
        /\ Len(p) >= 3 /\ IsPyInt(p[1]) /\ IsPyFloat(p[3])
        /\ (PyInt(p[1]) < 1 \/ PyFloat(p[3]).mant < 0)

\* The same for outputs in which no row is written with a rank below one or
\* a distance below zero: the parser takes the numbers as they are written.
RankAndDistanceAsWritten ==
    QueryExitedZero =>
        \A lines \in {StdoutLines} :
            (\A j \in 1..Len(lines) : ~SignedRow(lines[j]))
            => \A i \in 1..Len(query_result.results) :
                   /\ query_result.results[i].rank \in Nat \ {0}
                   /\ query_result.results[i].distance.mant >= 0

(***************************************************************************)
(* C12                                                                     *)
(***************************************************************************)
\* C12: the registry maps every feature key to one non-empty metric,
\* description and feature file; after any feature selections the metric
\* field and the description show the entry of the selected feature, and
\* the feature, metric and feature file of every query tool call are those
\* of the feature selected when find_matches ran.
C12_PairingFixedAndTotal ==
    /\ DOMAIN features_config = FeatureNames
    /\ Cardinality(FeatureNames) = Len(FeatureOrder)
    /\ \A f \in FeatureNames :
           /\ features_config[f].metric # ""
           /\ features_config[f].description # ""
           /\ features_config[f].csv # ""
    /\ ui_built =>
           /\ feature_var \in FeatureNames
           /\ metric_var = features_config[feature_var].metric
           /\ feature_desc = features_config[feature_var].description
    /\ query_cmd # NoCmd =>
           /\ query_cmd.feature \in FeatureNames
           /\ query_cmd.metric = features_config[query_cmd.feature].metric
           /\ query_cmd.csv = features_config[query_cmd.feature].csv
    /\ pc = "querying" =>
           /\ query_cmd.feature = feature_var
           /\ query_cmd.metric = metric_var

\* a query with baseline and ssd in flight, while the results of an earlier
\* query with histogram are still shown
C12_Witness ==
    /\ pc = "querying"
    /\ feature_var = "baseline"
    /\ metric_var = "ssd"
    /\ query_cmd.metric = "ssd"
    /\ query_cmd.csv = features_config["baseline"].csv
    /\ Len(widgets) >= 1
    /\ widgets[1].type = "header_frame"
    /\ widgets[1].feature = "histogram"

(***************************************************************************)
(* C13                                                                     *)
(***************************************************************************)
\* the widgets are those of one preview of the selected image
OnePreview(w) ==
    /\ Len(w) \in {1, 3}
    /\ w[1].type = "preview_header"
    /\ Len(w) = 3 =>
           /\ w[2].type = "preview_image" /\ w[2].text = selected_image_path
           /\ w[3].type = "preview_filename" /\ w[3].text = selected_image_path

\* the widgets are those of one result grid for the selected image: its
\* header and one frame for each of the results the header counts
OneResultGrid(w) ==
    /\ w[1].type = "header_frame"
    /\ w[1].query = selected_image_path
    /\ Len(w) = 1 + w[1].count
    /\ \A i \in 2..Len(w) : w[i].type = "result_frame" /\ w[i].index = i - 2

\* the frames of a widget list that show a loaded image
LoadedFrames(w) ==
    {i \in 1..Len(w) : w[i].type = "result_frame" /\ w[i].content = "image"}

\* C13: after any image selections and queries the results area holds the
\* widgets of one render only, the latest preview or the latest result
\* grid, and the list of retained images holds one entry for each result
\* image loaded in that render (none after a preview), so it does not grow
\* over repeated queries.
C13_OnlyLatestRender ==
    /\ widgets = <<>> => result_images = <<>>
    /\ widgets # <<>> =>
           /\ OnePreview(widgets) \/ OneResultGrid(widgets)
           /\ Len(result_images) = Cardinality(LoadedFrames(widgets))
           /\ Len(result_images) <= Len(ShownResults(widgets))
           /\ OnePreview(widgets) => result_images = <<>>

\* a grid of two results, one image loaded and one not, still the only
\* render after a later query timed out
C13_Witness ==
    /\ pc = "idle"
    /\ widgets # <<>>
    /\ OneResultGrid(widgets)
    /\ widgets[1].count = 2
    /\ result_images = <<"img2.jpg">>
    /\ query_result.outcome = Timeout

(***************************************************************************)
(* C14                                                                     *)
(***************************************************************************)
\* the status label shows a 'Please wait' message
InProgress(status) ==
    status.text \in {"Building all databases... Please wait...",
                     "Building database... Please wait...",
                     "Querying... Please wait..."}

\* the build status is the final message of the last build action
BuildStatusFinal ==
    \/ /\ build_status.text = "Database built successfully!"
       /\ build_status.color = "green"
       /\ ExitedZero(build_result.outcome)
    \/ /\ build_status.text = "Failed to build database"
       /\ build_status.color = "red"
       /\ ~ExitedZero(build_result.outcome)
    \/ /\ build_status.text = "All M databases built successfully!"
       /\ build_status.color = "green"
       /\ \A i \in 1..Len(build_calls) : build_calls[i].success
    \/ /\ build_status.text = "Built M/K databases. Failed: names"
       /\ build_status.color = "orange"
       /\ \E i \in 1..Len(build_calls) : ~build_calls[i].success

\* the query status is the final message of the last query
QueryStatusFinal ==
    \/ /\ query_status.text = "Found N matches"
       /\ query_status.color = "green"
       /\ ExitedZero(query_result.outcome)
       /\ query_result.results # <<>>
       /\ query_status.count = Len(query_result.results)
    \/ /\ query_status.text = "No results found"
       /\ query_status.color = "red"
       /\ ExitedZero(query_result.outcome)
       /\ query_result.results = <<>>
    \/ /\ query_status.text = "Query failed!"
       /\ query_status.color = "red"
       /\ query_result.outcome.kind = "exit"
       /\ query_result.outcome.returncode # 0
    \/ /\ query_status.text = "Query timeout!"
       /\ query_status.color = "red"
       /\ query_result.outcome.kind = "timeout"
    \/ /\ query_status.text = "Query error!"
       /\ query_status.color = "red"
       /\ query_result.outcome.kind = "exception"

\* no status line shows 'Please wait', and the status line of every action
\* that has run shows the final message of its outcome
StatusLinesFinal ==
    /\ ~InProgress(build_status)
    /\ ~InProgress(query_status)
    /\ build_calls # <<>> => BuildStatusFinal
    /\ query_result # NoQuery => QueryStatusFinal

\* C14: whenever build-all, build-selected or find-matches puts the
\* 'Please wait' message on its status line, the action goes on to replace
\* it by the final message of the actual outcome (exit zero, non-zero exit,
\* timeout, spawn exception, output without rows), and no status line shows
\* 'Please wait' once the action has returned.
C14_StatusEndsFinal ==
    /\ [](pc = "idle" => StatusLinesFinal)
    /\ (InProgress(build_status) \/ InProgress(query_status)) ~> (pc = "idle")

\* a query that timed out after a batch build in which one call failed:
\* both status lines show their final message
C14_Witness ==
    /\ pc = "idle"
    /\ build_status.text = "Built M/K databases. Failed: names"
    /\ query_status.text = "Query timeout!"
    /\ query_result.outcome = Timeout

(***************************************************************************)
(* C15                                                                     *)
(***************************************************************************)
\* a step of find_matches taken while no image is selected or while the
\* feature file of the selected feature does not exist
FindRefused ==
    \/ selected_image_path = "" /\ \E csv_exists \in BOOLEAN : FindMatchesStart(csv_exists)
    \/ FindMatchesStart(FALSE)

\* a step of select_image in which the dialog was cancelled
PickerCancelled == \E loaded \in BOOLEAN : SelectImage("", loaded)

\* the step calls no tool, shows an error box and leaves the selected
\* image, the rendered results and the query status as they were
ReportsAndKeeps ==
    /\ pc' = "idle"
    /\ query_cmd' = query_cmd
    /\ modal'.kind = "error"
    /\ selected_image_path' = selected_image_path
    /\ widgets' = widgets
    /\ result_images' = result_images
    /\ query_status' = query_status

\* C15: find_matches calls the query tool only while an image is selected
\* and the feature file of the selected feature exists; otherwise it
\* reports an error and returns with the selected image, the rendered
\* results and the query status unchanged. A cancelled image picker leaves
\* the selected image and the rendered results unchanged.
C15_RefusedQueryKeepsState ==
    [][/\ FindRefused => ReportsAndKeeps
       /\ (pc = "idle" /\ pc' = "querying") => selected_image_path # ""
       /\ PickerCancelled => /\ selected_image_path' = selected_image_path
                             /\ widgets' = widgets
                             /\ result_images' = result_images]_vars

\* The same while the top-N spin box holds an integer.
RefusedQueryKeepsStateWithIntegerTopN ==
    [][/\ (FindRefused /\ (selected_image_path = "" \/ IsPyInt(topn_var))) => ReportsAndKeeps
       /\ (pc = "idle" /\ pc' = "querying") => selected_image_path # ""
       /\ PickerCancelled => /\ selected_image_path' = selected_image_path
                             /\ widgets' = widgets
                             /\ result_images' = result_images]_vars

=============================================================================
